---- MODULE Spec2Model ----
(***************************************************************************)
(* AbstractReviewAI (src/main.py): the free-text parser                    *)
(* parse_assistant_output, the normalizer validate_and_fill and the        *)
(* session run_abstract_reviewer with its agent clean-up.                  *)
(*                                                                         *)
(* A Python str is a sequence of tokens.  A token is a run of characters   *)
(* that the code never looks inside: a word, one whitespace character,     *)
(* one punctuation character.  CharLen gives the number of characters of   *)
(* a token, Upper / Lower its case mappings.  Offsets are Python's         *)
(* (0-based, -1 for "not found").                                          *)
(***************************************************************************)
EXTENDS Integers, Sequences, FiniteSets, TLC

VARIABLES
    pc,                 \* position of the running call / session
    text,               \* RawAgentText handed to parse_assistant_output
    original_abstract,  \* argument of validate_and_fill / user_abstract
    custom_commands,    \* argument of validate_and_fill / user_commands
    article_content,    \* None or the loaded article text
    parsed,             \* the dict returned by parse_assistant_output
    result,             \* the dict returned by validate_and_fill
    FALLBACK_REVIEW,    \* the module-level list
    warned,             \* the "Could not parse scores JSON" warning was printed
    session             \* run_abstract_reviewer's locals and its effects

vars == <<pc, text, original_abstract, custom_commands, article_content,
          parsed, result, FALLBACK_REVIEW, warned, session>>

-----------------------------------------------------------------------------
(* Bounds of the model *)

\* sections (header + body) a generated raw text is made of
MaxSections == 3
\* filler comments appended to a generated review_comments list
MaxFill == 11

-----------------------------------------------------------------------------
(* Tokens and the str methods the code uses *)

NL == "NL"
BUL == "BUL"
LCIT == "[["
RCIT == "]]"

IsSpace(t) == t \in {" ", NL}

\* the number of characters of a token
CharLen(t) == IF t \in {NL, BUL, LCIT, RCIT} THEN 1 ELSE Len(t)

Upper(t) ==
    CASE t = "review" -> "REVIEW"
      [] t = "comments" -> "COMMENTS"
      [] t = "scores" -> "SCORES"
      [] t = "corrected" -> "CORRECTED"
      [] t \in {"abstract", "Abstract"} -> "ABSTRACT"
      [] t = "summary" -> "SUMMARY"
      [] t = "photonics" -> "PHOTONICS"
      [] OTHER -> t

Lower(t) ==
    CASE t = "REVIEW" -> "review"
      [] t = "COMMENTS" -> "comments"
      [] t = "SCORES" -> "scores"
      [] t = "CORRECTED" -> "corrected"
      [] t \in {"ABSTRACT", "Abstract"} -> "abstract"
      [] t = "SUMMARY" -> "summary"
      [] t = "PHOTONICS" -> "photonics"
      [] t = "Consider" -> "consider"
      [] t = "Results" -> "results"
      [] t = "Conclusion" -> "conclusion"
      [] OTHER -> t

UpperStr(s) == [i \in 1..Len(s) |-> Upper(s[i])]
LowerStr(s) == [i \in 1..Len(s) |-> Lower(s[i])]

RECURSIVE StrLen(_)
StrLen(s) == IF s = <<>> THEN 0 ELSE CharLen(Head(s)) + StrLen(Tail(s))

MinOf(S) == CHOOSE x \in S : \A y \in S : x <= y
MaxOf(S) == CHOOSE x \in S : \A y \in S : x >= y

\* s[a:b] for offsets a, b >= 0
Slice(s, a, b) == SubSeq(s, a + 1, IF b > Len(s) THEN Len(s) ELSE b)
\* s[a:]
SliceFrom(s, a) == SubSeq(s, a + 1, Len(s))

StartsWith(s, pat) == Len(s) >= Len(pat) /\ SubSeq(s, 1, Len(pat)) = pat

\* str.find(pat): offset of the first occurrence, -1 when there is none
Find(s, pat) ==
    LET hits == {i \in 0..(Len(s) - Len(pat)) : SubSeq(s, i + 1, i + Len(pat)) = pat}
    IN  IF hits = {} THEN -1 ELSE MinOf(hits)

\* str.rfind(tok)
RFind(s, pat) ==
    LET hits == {i \in 0..(Len(s) - Len(pat)) : SubSeq(s, i + 1, i + Len(pat)) = pat}
    IN  IF hits = {} THEN -1 ELSE MaxOf(hits)

\* pat in s
Contains(s, pat) == Find(s, pat) /= -1

\* removal of a leading run of tokens of the class cls: re.sub(r"^[cls]+", "", s)
RECURSIVE DropLeading(_, _)
DropLeading(s, cls) ==
    IF s /= <<>> /\ (Head(s) \in cls) THEN DropLeading(Tail(s), cls) ELSE s

Strip(s) ==
    LET keep == {i \in 1..Len(s) : ~IsSpace(s[i])}
    IN  IF keep = {} THEN <<>> ELSE SubSeq(s, MinOf(keep), MaxOf(keep))

\* str.split(): the words, maximal runs of non-whitespace
RECURSIVE Split(_)
Split(s) ==
    LET t == DropLeading(s, {" ", NL})
    IN  IF t = <<>> THEN <<>>
        ELSE LET sp == {i \in 1..Len(t) : IsSpace(t[i])}
                 e  == IF sp = {} THEN Len(t) + 1 ELSE MinOf(sp)
             IN  <<SubSeq(t, 1, e - 1)>> \o Split(SubSeq(t, e, Len(t)))

\* len(s.split())
WordCount(s) ==
    Cardinality({i \in 1..Len(s) : ~IsSpace(s[i]) /\ (i = 1 \/ IsSpace(s[i - 1]))})

\* str.split('\n'): the lines, at least one
RECURSIVE SplitLines(_)
SplitLines(s) ==
    LET nl == {i \in 1..Len(s) : s[i] = NL}
    IN  IF nl = {} THEN <<s>>
        ELSE <<SubSeq(s, 1, MinOf(nl) - 1)>> \o SplitLines(SubSeq(s, MinOf(nl) + 1, Len(s)))

\* sep.join(parts)
RECURSIVE Join(_, _)
Join(sep, parts) ==
    IF parts = <<>> THEN <<>>
    ELSE IF Len(parts) = 1 THEN parts[1]
    ELSE parts[1] \o sep \o Join(sep, Tail(parts))

\* n words separated by single spaces
RECURSIVE Words(_)
Words(n) == IF n = 0 THEN <<>> ELSE IF n = 1 THEN <<"w">> ELSE <<"w", " ">> \o Words(n - 1)

-----------------------------------------------------------------------------
(* Constants of the program *)

MaxCommentWords == 50
MinComments == 2
MaxComments == 10
MinAbstractWords == 30
MinCommentChars == 10

None == <<>>
Some(s) == <<s>>
\* Python truthiness of an optional str: neither None nor ""
Truthy(opt) == opt /= None /\ opt[1] /= <<>>

EmptyDict == [k \in {} |-> 0]

InitialFallback ==
    << <<"Abstract", " ", "provides", " ", "a", " ", "good", " ", "overview", " ", "but",
         " ", "could", " ", "be", " ", "more", " ", "concise.">>,
       <<"Consider", " ", "adding", " ", "more", " ", "specific", " ", "methodology", " ",
         "details.">>,
       <<"Results", " ", "section", " ", "should", " ", "highlight", " ", "key", " ",
         "findings", " ", "more", " ", "clearly.">>,
       <<"Conclusion", " ", "could", " ", "better", " ", "articulate", " ", "the", " ",
         "study's", " ", "contributions.">> >>

DefaultSummary ==
    <<"Abstract", " ", "has", " ", "been", " ", "reviewed", " ", "and", " ", "improved",
      " ", "for", " ", "clarity,", " ", "completeness,", " ", "and", " ", "academic", " ",
      "standards.">>

expected_categories ==
    <<"length", "keywords", "gist", "consistency", "inclusion",
      "checklist_completeness", "conciseness">>

ExpectedSet == {expected_categories[i] : i \in 1..Len(expected_categories)}

mapping_rules(cat) ==
    CASE cat = "length" -> <<"length", "word_count">>
      [] cat = "keywords" -> <<"keywords", "relevance", "subject_relevance">>
      [] cat = "gist" -> <<"gist", "essence", "technical_accuracy", "scientific_rigor">>
      [] cat = "consistency" ->
            <<"consistency", "consistency_with_article_content", "alignment">>
      [] cat = "inclusion" -> <<"inclusion", "completeness", "data_inclusion">>
      [] cat = "checklist_completeness" ->
            <<"checklist_completeness", "completeness", "structure">>
      [] cat = "conciseness" -> <<"conciseness", "clarity", "brevity">>

\* mutant: the consistency default ignores whether an article was supplied
defaults_IgnoreArticle(cat, article) ==
    CASE cat \in {"length", "inclusion", "checklist_completeness"} -> 85
      [] cat \in {"keywords", "gist", "conciseness"} -> 90
      [] cat = "consistency" -> 98
      [] OTHER -> 70

defaults(cat, article) ==
    CASE cat = "length" -> 85
      [] cat = "keywords" -> 90
      [] cat = "gist" -> 90
      [] cat = "consistency" -> IF Truthy(article) THEN 98 ELSE 75
      [] cat = "inclusion" -> 85
      [] cat = "checklist_completeness" -> 85
      [] cat = "conciseness" -> 90
      [] OTHER -> 70

\* a keyword is a token sequence; a one-token keyword also occurs inside a longer token
off_topic_keywords ==
    { <<"off-topic">>, <<"different", " ", "topic">>, <<"unrelated">>, <<"mismatch">>,
      <<"inconsistent">>, <<"photonics">>, <<"optics">>, <<"waveguide">> }

TokenHolds(t, k) == t = k \/ (t = "waveguides" /\ k = "waveguide")

KeywordIn(kw, s) ==
    IF Len(kw) = 1 THEN \E i \in 1..Len(s) : TokenHolds(s[i], kw[1])
    ELSE Contains(s, kw)

-----------------------------------------------------------------------------
(* clean_markdown and clamp_words *)

\* re.sub(r'[[ [^]]]* ]]', '', s): every citation span, left to right
RECURSIVE RemoveCitations(_)
RemoveCitations(s) ==
    LET opens == {i \in 1..Len(s) : s[i] = LCIT /\ \E j \in (i + 1)..Len(s) : s[j] = RCIT}
    IN  IF opens = {} THEN s
        ELSE LET i == MinOf(opens)
                 j == MinOf({k \in (i + 1)..Len(s) : s[k] = RCIT})
             IN  SubSeq(s, 1, i - 1) \o RemoveCitations(SubSeq(s, j + 1, Len(s)))

\* re.sub(r"^(\*){k}(.+?)(\*){k}$", r"\2", s): the whole string wrapped in k asterisks
Unwrap(s, k) ==
    LET stars == [i \in 1..k |-> "*"]
        e == IF s /= <<>> /\ s[Len(s)] = NL THEN Len(s) - 1 ELSE Len(s)
        mid == SubSeq(s, k + 1, e - k)
    IN  IF /\ e >= 2 * k + 1
           /\ SubSeq(s, 1, k) = stars
           /\ SubSeq(s, e - k + 1, e) = stars
           /\ \A i \in 1..Len(mid) : mid[i] /= NL
        THEN mid \o SubSeq(s, e + 1, Len(s))
        ELSE s

clean_markdown(s0) ==
    LET s1 == Strip(s0)
        s2 == RemoveCitations(s1)
        s3 == DropLeading(s2, {"-", "*", "+", " ", NL})
        s4 == Unwrap(s3, 2)
        s5 == Unwrap(s4, 1)
    IN  Strip(s5)

clamp_words(s, max_words) ==
    LET words == Split(s)
    IN  IF Len(words) <= max_words THEN s
        ELSE Join(<<" ">>, SubSeq(words, 1, max_words))

-----------------------------------------------------------------------------
(* validate_and_fill *)

\* [clamp_words(clean_markdown(s), 50) for s in raw if s and s.strip()]
RECURSIVE CleanComments(_)
CleanComments(raw) ==
    IF raw = <<>> THEN <<>>
    ELSE (IF Strip(Head(raw)) /= <<>>
          THEN <<clamp_words(clean_markdown(Head(raw)), MaxCommentWords)>>
          ELSE <<>>) \o CleanComments(Tail(raw))

\* mutant: the cap of 10 is missing
CommentCountPolicy_NoCap(comments, fallback) ==
    IF Len(comments) < MinComments THEN fallback ELSE comments

\* fewer than 2 comments: the fallback list itself; otherwise the first 10
CommentCountPolicy(comments, fallback) ==
    IF Len(comments) < MinComments THEN fallback
    ELSE SubSeq(comments, 1, IF Len(comments) < MaxComments THEN Len(comments)
                             ELSE MaxComments)

\* mutant: the last alias present wins
MapCategory_LastAlias(agent_scores, cat, article) ==
    LET rule == mapping_rules(cat)
        present == {i \in 1..Len(rule) : rule[i] \in DOMAIN agent_scores}
    IN  IF present /= {} THEN agent_scores[rule[MaxOf(present)]]
        ELSE defaults(cat, article)

\* the first key of mapping_rules[cat] present in agent_scores, else the default
MapCategory(agent_scores, cat, article) ==
    LET rule == mapping_rules(cat)
        present == {i \in 1..Len(rule) : rule[i] \in DOMAIN agent_scores}
    IN  IF present /= {} THEN agent_scores[rule[MinOf(present)]]
        ELSE defaults(cat, article)

\* pass-through when every expected category is a key, else the mapped scores
ReconcileScores(agent_scores, article) ==
    IF \A cat \in ExpectedSet : cat \in DOMAIN agent_scores
    THEN agent_scores
    ELSE [cat \in ExpectedSet |-> MapCategory(agent_scores, cat, article)]

\* mutant: the review text is not lower-cased before the search
OffTopic_CaseSensitive(review_comments) ==
    \E kw \in off_topic_keywords : KeywordIn(kw, Join(<<" ">>, review_comments))

\* any(keyword in review_text for keyword in off_topic_keywords)
OffTopic(review_comments) ==
    LET review_text == LowerStr(Join(<<" ">>, review_comments))
    IN  \E kw \in off_topic_keywords : KeywordIn(kw, review_text)

SetKey(d, k, v) == [x \in (DOMAIN d) \cup {k} |-> IF x = k THEN v ELSE d[x]]

\* mutant: the floor is one word too low
AbstractFloor_OffByOne(candidate, original) ==
    IF WordCount(candidate) < MinAbstractWords - 1 THEN original ELSE candidate

\* out["corrected_abstract"] after the length check
AbstractFloor(candidate, original) ==
    IF WordCount(candidate) < MinAbstractWords THEN original ELSE candidate

\* The returned dict is .out; .parsed is the argument dict after the call: when the
\* scores are passed through, out["checklist_scores"] is the very dict object of
\* parsed["checklist_scores"], so the off-topic assignment writes into both.
validate_and_fill(p, original, commands, article, fallback) ==
    LET agent_scores == p.checklist_scores
        passthrough == agent_scores /= EmptyDict
                       /\ \A cat \in ExpectedSet : cat \in DOMAIN agent_scores
        comments == CommentCountPolicy(CleanComments(p.review_comments), fallback)
        scores == ReconcileScores(agent_scores, article)
        off == OffTopic(comments)
        candidate == Strip(IF p.corrected_abstract /= <<>> THEN p.corrected_abstract
                           ELSE original)
    IN  [ out |->
            [ original_abstract |-> Strip(original),
              custom_commands |-> Strip(IF commands /= <<>> THEN commands ELSE <<"none">>),
              review_comments |-> comments,
              checklist_scores |-> IF off THEN SetKey(scores, "consistency", 0) ELSE scores,
              corrected_abstract |-> AbstractFloor(candidate, original),
              improvement_summary |->
                  Strip(IF p.improvement_summary /= <<>> THEN p.improvement_summary
                        ELSE DefaultSummary) ],
          parsed |->
            IF off /\ passthrough
            THEN [p EXCEPT !.checklist_scores = SetKey(agent_scores, "consistency", 0)]
            ELSE p ]

EmptyParsed ==
    [ review_comments |-> <<>>, checklist_scores |-> EmptyDict,
      corrected_abstract |-> <<>>, improvement_summary |-> <<>> ]

EmptyResult ==
    [ original_abstract |-> <<>>, custom_commands |-> <<>>, review_comments |-> <<>>,
      checklist_scores |-> EmptyDict, corrected_abstract |-> <<>>,
      improvement_summary |-> <<>> ]

-----------------------------------------------------------------------------
(* parse_assistant_output *)

H_REVIEW == <<"REVIEW", " ", "COMMENTS">>
H_SCORES == <<"CHECKLIST", " ", "SCORES">>
H_CORRECTED == <<"CORRECTED", " ", "ABSTRACT">>
H_IMPROVEMENT == <<"IMPROVEMENT", " ", "SUMMARY">>

\* A member token is one "key": value pair of a JSON object, separator included.
MemberTokens ==
    { "m:length", "m:keywords", "m:gist", "m:consistency", "m:inclusion",
      "m:checklist_completeness", "m:conciseness", "m:alignment", "m:word_count",
      "m:novelty" }

MemberKey(t) ==
    CASE t = "m:length" -> "length"
      [] t = "m:keywords" -> "keywords"
      [] t = "m:gist" -> "gist"
      [] t = "m:consistency" -> "consistency"
      [] t = "m:inclusion" -> "inclusion"
      [] t = "m:checklist_completeness" -> "checklist_completeness"
      [] t = "m:conciseness" -> "conciseness"
      [] t = "m:alignment" -> "alignment"
      [] t = "m:word_count" -> "word_count"
      [] t = "m:novelty" -> "novelty"

\* the value the agent reports under a key: distinct per key, none a default
AgentVal(k) ==
    CASE k = "length" -> 61
      [] k = "keywords" -> 62
      [] k = "gist" -> 63
      [] k = "consistency" -> 95
      [] k = "inclusion" -> 64
      [] k = "checklist_completeness" -> 65
      [] k = "conciseness" -> 66
      [] k = "alignment" -> 71
      [] k = "consistency_with_article_content" -> 72
      [] k = "completeness" -> 73
      [] k = "word_count" -> 74
      [] OTHER -> 50

\* json.loads accepts "{", members and whitespace, "}" and nothing else
JsonValid(j) ==
    /\ Len(j) >= 2
    /\ j[1] = "{"
    /\ j[Len(j)] = "}"
    /\ \A i \in 2..(Len(j) - 1) : j[i] \in MemberTokens \/ IsSpace(j[i])

JsonLoads(j) ==
    LET keys == {MemberKey(j[i]) : i \in {k \in 2..(Len(j) - 1) : j[k] \in MemberTokens}}
    IN  [k \in keys |-> AgentVal(k)]

\* one line of the review section: <<comment>> when it is kept, <<>> when not
ReviewLine(line0) ==
    LET line == Strip(line0)
    IN  IF line /= <<>> /\ line[1] \in {"-", BUL, "*"}
        THEN LET clean_line == DropLeading(line, {"-", BUL, "*", " ", NL})
             IN  IF clean_line /= <<>> /\ StrLen(clean_line) > MinCommentChars
                 THEN <<clean_line>> ELSE <<>>
        ELSE IF line /= <<>> /\ line[1] = "1."
        THEN LET clean_line == DropLeading(Tail(line), {" ", NL})
             IN  IF clean_line /= <<>> /\ StrLen(clean_line) > MinCommentChars
                 THEN <<clean_line>> ELSE <<>>
        ELSE <<>>

RECURSIVE ReviewLines(_)
ReviewLines(lines) ==
    IF lines = <<>> THEN <<>> ELSE ReviewLine(Head(lines)) \o ReviewLines(Tail(lines))

\* the bullet and numbered lines of text[review_start:scores_start]
ExtractReview(txt, review_start, scores_start) ==
    IF review_start /= -1 /\ scores_start /= -1
    THEN ReviewLines(SplitLines(Slice(txt, review_start, scores_start)))
    ELSE <<>>

\* scores_text as Some(str), or None when the local is never assigned
ScoresText(txt, scores_start, corrected_start, improvement_start) ==
    IF scores_start /= -1 /\ corrected_start /= -1
    THEN Some(Slice(txt, scores_start, corrected_start))
    ELSE IF scores_start /= -1 /\ corrected_start = -1 /\ improvement_start /= -1
    THEN Some(Slice(txt, scores_start, improvement_start))
    ELSE IF scores_start /= -1
    THEN Some(SliceFrom(txt, scores_start))
    ELSE None

\* [scores |-> the dict, warned |-> the JSONDecodeError was caught]
ExtractScores(scores_opt) ==
    IF scores_opt = None THEN [scores |-> EmptyDict, warned |-> FALSE]
    ELSE LET scores_text == scores_opt[1]
             json_start == Find(scores_text, <<"{">>)
             json_end == RFind(scores_text, <<"}">>) + 1
         IN  IF json_start /= -1 /\ json_end > json_start
             THEN LET scores_json == Slice(scores_text, json_start, json_end)
                  IN  IF JsonValid(scores_json)
                      THEN [scores |-> JsonLoads(scores_json), warned |-> FALSE]
                      ELSE [scores |-> EmptyDict, warned |-> TRUE]
             ELSE [scores |-> EmptyDict, warned |-> FALSE]

CorrectedText(txt, corrected_start, improvement_start) ==
    IF corrected_start /= -1 /\ improvement_start /= -1
    THEN Some(Slice(txt, corrected_start, improvement_start))
    ELSE IF corrected_start /= -1
    THEN Some(SliceFrom(txt, corrected_start))
    ELSE None

\* the loop over the lines of a section: header lines are skipped, and a line is
\* taken once a header line was passed; bullets are the markers removed from it
RECURSIVE SectionLines(_, _, _, _)
SectionLines(lines, header, header_passed, bullets) ==
    IF lines = <<>> THEN <<>>
    ELSE LET line == Head(lines)
         IN  IF StartsWith(Strip(UpperStr(line)), header)
             THEN SectionLines(Tail(lines), header, TRUE, bullets)
             ELSE LET clean_line == DropLeading(Strip(line), bullets)
                  IN  (IF header_passed /\ Strip(line) /= <<>> /\ clean_line /= <<>>
                       THEN <<clean_line>> ELSE <<>>)
                      \o SectionLines(Tail(lines), header, header_passed, bullets)

ExtractCorrected(corrected_opt) ==
    IF corrected_opt = None THEN <<>>
    ELSE Join(<<" ">>, SectionLines(SplitLines(corrected_opt[1]), H_CORRECTED, FALSE, {}))

ExtractImprovement(txt, improvement_start) ==
    IF improvement_start = -1 THEN <<>>
    ELSE Join(<<" ">>, SectionLines(SplitLines(SliceFrom(txt, improvement_start)),
                                    H_IMPROVEMENT, FALSE, {"-", BUL, "*", " ", NL}))

parse_assistant_output(txt) ==
    LET text_upper == UpperStr(txt)
        review_start == Find(text_upper, H_REVIEW)
        scores_start == Find(text_upper, H_SCORES)
        corrected_start == Find(text_upper, H_CORRECTED)
        improvement_start == Find(text_upper, H_IMPROVEMENT)
        sc == ExtractScores(ScoresText(txt, scores_start, corrected_start,
                                       improvement_start))
    IN  [ parsed |->
            [ review_comments |-> ExtractReview(txt, review_start, scores_start),
              checklist_scores |-> sc.scores,
              corrected_abstract |->
                  ExtractCorrected(CorrectedText(txt, corrected_start, improvement_start)),
              improvement_summary |-> ExtractImprovement(txt, improvement_start) ],
          warned |-> sc.warned ]

-----------------------------------------------------------------------------
(* Inputs of a direct call of validate_and_fill *)

DictOf(keys) == [k \in keys |-> AgentVal(k)]

CanonSubsets ==
    { {}, ExpectedSet, ExpectedSet \ {"consistency"},
      {"length", "keywords", "gist", "inclusion"} }

OtherKeySets ==
    { {}, {"alignment"}, {"alignment", "consistency_with_article_content"},
      {"completeness", "word_count"}, {"novelty"} }

ScoreDicts == {DictOf(c \cup o) : c \in CanonSubsets, o \in OtherKeySets}

cPlain == <<"the", " ", "methodology", " ", "is", " ", "clear.">>
cKeyword == <<"-", " ", "article", " ", "is", " ", "about", " ", "PHOTONICS">>
cBlank == <<" ">>
cBold == <<"*", "*", "unrelated", " ", "claim", "*", "*">>
cCited == <<"see", " ", LCIT, "photonics", RCIT, " ", "results">>
\* the keyword is the 51st word
cLong == Words(MaxCommentWords) \o <<" ", "waveguides">>

HeadComments == {cKeyword, cBlank, <<>>, cBold, cCited, cLong}
TailComments == {cKeyword}

Fill(n) == [i \in 1..n |-> cPlain]

RawCommentLists ==
    { h \o Fill(n) \o t :
        h \in {<<>>} \cup {<<c>> : c \in HeadComments},
        n \in 0..MaxFill,
        t \in {<<>>} \cup {<<c>> : c \in TailComments} }

Candidates ==
    { <<>>, <<" ">>, Words(MinAbstractWords - 1),
      <<" ">> \o Words(MinAbstractWords) \o <<NL>> }

Originals ==
    { Words(MinAbstractWords), <<" ">> \o Words(MinAbstractWords) \o <<" ">>,
      <<" ">> \o Words(5) }

Summaries == { <<>>, <<" ", "clearer", " ", "wording", NL>> }

Articles == { None, Some(<<>>), Some(<<"article", " ", "text">>) }

\* The fields are normalized independently, except that the comments decide the
\* consistency score: comments, scores and article vary together, and so do the
\* candidate, the original abstract and the summary.
ValidateInputs ==
    { << [ review_comments |-> c, checklist_scores |-> d,
           corrected_abstract |-> <<>>, improvement_summary |-> <<>> ],
         Words(MinAbstractWords), art >> :
        c \in RawCommentLists, d \in ScoreDicts, art \in Articles }
    \cup
    { << [ review_comments |-> Fill(2), checklist_scores |-> DictOf(ExpectedSet),
           corrected_abstract |-> a, improvement_summary |-> m ],
         o, None >> :
        a \in Candidates, m \in Summaries, o \in Originals }

\* run_abstract_reviewer's locals and effects, before the session starts
InitSession ==
    [ user_article |-> "",      \* the article path typed by the user
      agents |-> {},            \* the agent locals that are bound
      run_status |-> "none",    \* run.status
      error |-> "none",         \* the call whose exception is propagating
      aborted |-> FALSE,        \* the user chose 'exit'
      log |-> <<>>,             \* what the session did, in order
      artifacts |-> {},         \* the output files written
      cleanup_index |-> 0 ]     \* entries of agents_to_clean already visited

-----------------------------------------------------------------------------
(* validate_and_fill called on any parsed record *)

InitValidate ==
    /\ pc = "validate"
    /\ text = <<>>
    /\ \E inp \in ValidateInputs :
          /\ parsed = inp[1]
          /\ original_abstract = inp[2]
          /\ article_content = inp[3]
    /\ custom_commands = <<>>
    /\ result = EmptyResult
    /\ FALLBACK_REVIEW = InitialFallback
    /\ warned = FALSE
    /\ session = InitSession

\* result = validate_and_fill(parsed, original_abstract, custom_commands, article_content)
Validate ==
    /\ pc = "validate"
    /\ LET r == validate_and_fill(parsed, original_abstract, custom_commands,
                                  article_content, FALLBACK_REVIEW)
       IN  /\ result' = r.out
           /\ parsed' = r.parsed
    /\ pc' = "done"
    /\ UNCHANGED <<text, original_abstract, custom_commands, article_content,
                   FALLBACK_REVIEW, warned, session>>

NextValidate == Validate

SpecValidate == InitValidate /\ [][NextValidate]_vars

-----------------------------------------------------------------------------
(* parse_assistant_output followed by validate_and_fill, on generated raw texts *)

h_review_lower == <<"review", " ", "comments">>

\* two kept comments, the first with an off-topic keyword
bTwoComments ==
    <<"-", " ", "about", " ", "photonics", NL, "1.", " ", "the", " ", "methodology">>
\* the keyword on a line that is no bullet, and one kept comment
bWarningLine ==
    <<"CRITICAL", " ", "photonics", " ", "article", NL, "*", " ", "the", " ",
      "methodology">>
\* bullet lines of exactly 10 and of 11 characters, and a numbered line of 15
bBoundaryLines ==
    <<"-", " ", "is", " ", "unclear", NL, "*", " ", "too", " ", "unclear", NL,
      "1.", " ", "the", " ", "methodology">>
jFull ==
    <<"{", "m:length", "m:keywords", "m:gist", "m:consistency", "m:inclusion",
      "m:checklist_completeness", "m:conciseness", "}">>
jUnbalanced == <<"{", "{", "m:consistency", "}">>
jAlias == <<"{", "m:alignment", " ", "m:length", "m:novelty", "}">>
bSummary == <<"-", " ", "clearer", " ", "wording">>

\* a section: a header line (or none) and the lines under it
SectionVocab ==
    { <<H_REVIEW, bTwoComments>>, <<H_REVIEW, bWarningLine>>,
      <<h_review_lower, bTwoComments>>, <<H_REVIEW, bBoundaryLines>>,
      <<H_SCORES, jFull>>, <<H_SCORES, jUnbalanced>>, <<H_SCORES, jAlias>>,
      <<H_CORRECTED, Words(MinAbstractWords)>>, <<H_CORRECTED, Words(5)>>,
      <<H_IMPROVEMENT, bSummary>>,
      <<<<>>, bTwoComments>>, <<<<>>, jFull>>, <<<<>>, Words(MinAbstractWords)>> }

SectionText(sec) ==
    (IF sec[1] = <<>> THEN <<>> ELSE sec[1] \o <<NL>>) \o sec[2] \o <<NL>>

RECURSIVE TextsOf(_)
TextsOf(n) ==
    IF n = 0 THEN {<<>>}
    ELSE LET shorter == TextsOf(n - 1)
         IN  shorter \cup {SectionText(sec) \o t : sec \in SectionVocab, t \in shorter}

RawTexts == TextsOf(MaxSections)

\* <<original abstract, article content>>
PipelineContexts ==
    { << <<" ">> \o Words(MinAbstractWords), None >>,
      << <<" ">> \o Words(MinAbstractWords), Some(<<>>) >>,
      << Words(5) \o <<NL>>, Some(<<"article", " ", "text">>) >> }

Init ==
    /\ pc = "parse"
    /\ text \in RawTexts
    /\ \E ctx \in PipelineContexts :
          /\ original_abstract = ctx[1]
          /\ article_content = ctx[2]
    /\ custom_commands = <<>>
    /\ parsed = EmptyParsed
    /\ result = EmptyResult
    /\ FALLBACK_REVIEW = InitialFallback
    /\ warned = FALSE
    /\ session = InitSession

\* parsed = parse_assistant_output(combined)
Parse ==
    /\ pc = "parse"
    /\ LET r == parse_assistant_output(text)
       IN  /\ parsed' = r.parsed
           /\ warned' = r.warned
    /\ pc' = "validate"
    /\ UNCHANGED <<text, original_abstract, custom_commands, article_content, result,
                   FALLBACK_REVIEW, session>>

Next == Parse \/ Validate

Spec == Init /\ [][Next]_vars

-----------------------------------------------------------------------------
(* run_abstract_reviewer: from the "with agents_client" block to the end of finally *)

agents_to_clean ==
    <<"orchestrator", "input_agent", "reviewer_agent", "checklister_agent",
      "writer_agent">>

SessionAbstracts == { Words(MinAbstractWords) }
ArticleFiles == { <<>>, <<"article", " ", "text">> }

\* what the thread holds after the run: the user's message, then the assistant's
user_msg(user_abstract, user_commands, article) ==
    <<"My", " ", "abstract:", " ">> \o user_abstract \o <<".", " ">>
    \o (IF user_commands /= <<"none">>
        THEN <<"Custom", " ", "review", " ", "commands:", " ">> \o user_commands
             \o <<".", " ">>
        ELSE <<>>)
    \o (IF Truthy(article)
        THEN <<"Full", " ", "article", " ", "content", " ", "has", " ", "been", " ",
               "provided", " ", "to", " ", "the", " ", "reviewer", " ", "agent.", " ">>
        ELSE <<"No", " ", "full", " ", "article", " ", "was", " ", "provided.", " ">>)
    \o <<"Please", " ", "review", " ", "and", " ", "correct", " ", "my", " ", "abstract.">>

FullOutput ==
    H_REVIEW \o <<NL>> \o bTwoComments \o <<NL>> \o H_SCORES \o <<NL>> \o jFull \o <<NL>>
    \o H_CORRECTED \o <<NL>> \o Words(MinAbstractWords) \o <<NL>>
    \o H_IMPROVEMENT \o <<NL>> \o bSummary

\* the assistant's text chunks: none, a partial answer, the whole answer
AssistantChunks == { <<>>, << H_REVIEW \o <<NL>> \o bWarningLine >>, << FullOutput >> }

SessionUnchanged ==
    UNCHANGED <<text, original_abstract, custom_commands, article_content, parsed,
                result, FALLBACK_REVIEW, warned>>

Logged(event) == [session EXCEPT !.log = Append(@, event)]

\* an exception leaves the with block and reaches finally
Raise(site) ==
    /\ session' = [session EXCEPT !.error = site]
    /\ pc' = "cleanup"
    /\ SessionUnchanged

InitRun ==
    /\ pc = "inputs"
    /\ text = <<>>
    /\ original_abstract = <<>>
    /\ custom_commands = <<>>
    /\ article_content = None
    /\ parsed = EmptyParsed
    /\ result = EmptyResult
    /\ FALLBACK_REVIEW = InitialFallback
    /\ warned = FALSE
    /\ session = InitSession

\* the three input() prompts
ReadInputs ==
    /\ pc = "inputs"
    /\ \E ua \in SessionAbstracts, path \in {"", "a.txt"} :
          /\ original_abstract' = ua
          /\ custom_commands' = <<"none">>
          /\ session' = [session EXCEPT !.user_article = path]
          /\ pc' = IF path = "" THEN "create_input_agent" ELSE "read_article"
    /\ UNCHANGED <<text, article_content, parsed, result, FALLBACK_REVIEW, warned>>

\* read_article_file(user_article) and truncate_content: loaded, or an exception
ReadArticle ==
    /\ pc = "read_article"
    /\ \/ \E content \in ArticleFiles :
             /\ article_content' = Some(content)
             /\ pc' = "create_input_agent"
       \/ /\ article_content' = None
          /\ pc' = "choice"
    /\ UNCHANGED <<text, original_abstract, custom_commands, parsed, result,
                   FALLBACK_REVIEW, warned, session>>

\* the retry / continue / exit prompt after a failed read
Choice ==
    /\ pc = "choice"
    /\ \/ /\ session' = [Logged("exiting") EXCEPT !.aborted = TRUE]
          /\ pc' = "cleanup"
          /\ UNCHANGED article_content
       \/ /\ pc' = "create_input_agent"
          /\ UNCHANGED <<article_content, session>>
       \/ \E content \in ArticleFiles :
             /\ article_content' = Some(content)
             /\ session' = [session EXCEPT !.user_article = "b.txt"]
             /\ pc' = "create_input_agent"
       \/ /\ pc' = "create_input_agent"
          /\ session' = Logged("second read failed")
          /\ UNCHANGED article_content
    /\ UNCHANGED <<text, original_abstract, custom_commands, parsed, result,
                   FALLBACK_REVIEW, warned>>

\* agents_client.create_agent(...) bound to the local `name`
CreateAgent(name, at, next) ==
    /\ pc = at
    /\ \/ /\ session' = [session EXCEPT !.agents = @ \cup {name}]
          /\ pc' = next
          /\ SessionUnchanged
       \/ Raise(at)

CreateInputAgent == CreateAgent("input_agent", "create_input_agent", "create_reviewer_agent")
CreateReviewerAgent ==
    CreateAgent("reviewer_agent", "create_reviewer_agent", "create_checklister_agent")
CreateChecklisterAgent ==
    CreateAgent("checklister_agent", "create_checklister_agent", "create_writer_agent")
CreateWriterAgent == CreateAgent("writer_agent", "create_writer_agent", "create_orchestrator")
CreateOrchestrator == CreateAgent("orchestrator", "create_orchestrator", "create_thread")

\* agents_client.threads.create()
CreateThread ==
    /\ pc = "create_thread"
    /\ \/ /\ pc' = "post_message"
          /\ UNCHANGED session
          /\ SessionUnchanged
       \/ Raise("create_thread")

\* agents_client.messages.create(...)
PostMessage ==
    /\ pc = "post_message"
    /\ \/ /\ pc' = "run"
          /\ UNCHANGED session
          /\ SessionUnchanged
       \/ Raise("post_message")

\* mutant: a failed status ends the session
AfterRun_AbortOnFailed(status) ==
    IF status = "failed" THEN "cleanup" ELSE "list_messages"

\* where the session goes after create_and_process returned with `status`
AfterRun(status) == "list_messages"

\* agents_client.runs.create_and_process(...) and the check of run.status
RunOrchestrator ==
    /\ pc = "run"
    /\ \/ \E status \in {"completed", "failed"} :
             /\ session' = [ (IF status = "failed" THEN Logged("run failed") ELSE session)
                             EXCEPT !.run_status = status ]
             /\ pc' = AfterRun(status)
             /\ SessionUnchanged
       \/ Raise("run")

\* agents_client.messages.list(...) and the join of the text chunks
ListMessages ==
    /\ pc = "list_messages"
    /\ \/ \E chunks \in AssistantChunks :
             /\ text' = Join(<<NL>>, <<user_msg(original_abstract, custom_commands,
                                               article_content)>> \o chunks)
             /\ session' = Logged("listed")
             /\ pc' = "session_parse"
             /\ UNCHANGED <<original_abstract, custom_commands, article_content, parsed,
                            result, FALLBACK_REVIEW, warned>>
       \/ Raise("list_messages")

\* parsed = parse_assistant_output(combined)
SessionParse ==
    /\ pc = "session_parse"
    /\ LET r == parse_assistant_output(text)
       IN  /\ parsed' = r.parsed
           /\ warned' = r.warned
    /\ session' = Logged("parsed")
    /\ pc' = "session_validate"
    /\ UNCHANGED <<text, original_abstract, custom_commands, article_content, result,
                   FALLBACK_REVIEW>>

\* result = validate_and_fill(...), then the article keys
SessionValidate ==
    /\ pc = "session_validate"
    /\ LET r == validate_and_fill(parsed, original_abstract, custom_commands,
                                  article_content, FALLBACK_REVIEW)
       IN  /\ result' = IF session.user_article /= ""
                         THEN r.out @@ [ article_path |-> session.user_article,
                                         article_provided |-> article_content /= None ]
                         ELSE r.out
           /\ parsed' = r.parsed
    /\ session' = Logged("normalized")
    /\ pc' = "write_json"
    /\ UNCHANGED <<text, original_abstract, custom_commands, article_content,
                   FALLBACK_REVIEW, warned>>

\* open(json_path, "w") and json.dump(result, f)
WriteJson ==
    /\ pc = "write_json"
    /\ \/ /\ session' = [Logged("json") EXCEPT !.artifacts = @ \cup {"json"}]
          /\ pc' = "write_md"
          /\ SessionUnchanged
       \/ Raise("write_json")

\* open(md_path, "w") and the report; the with block ends
WriteMarkdown ==
    /\ pc = "write_md"
    /\ \/ /\ session' = [Logged("md") EXCEPT !.artifacts = @ \cup {"md"}]
          /\ pc' = "cleanup"
          /\ SessionUnchanged
       \/ Raise("write_md")

\* mutant: one try around the whole loop, so a failed deletion ends it
NextCleanupIndex_StopOnFailure(i, failed) ==
    IF failed THEN Len(agents_to_clean) ELSE i

\* the index the loop over agents_to_clean visits after entry i, whose deletion
\* raised (failed) or not: the exception is caught inside the loop body
NextCleanupIndex(i, failed) == i

\* one entry of agents_to_clean in the finally block
Cleanup ==
    /\ pc = "cleanup"
    /\ session.cleanup_index < Len(agents_to_clean)
    /\ LET i == session.cleanup_index + 1
           agent == agents_to_clean[i]
       IN  \/ /\ agent \notin session.agents
              /\ session' = [session EXCEPT !.cleanup_index = i]
           \/ /\ agent \in session.agents
              /\ session' = [Logged("delete " \o agent)
                               EXCEPT !.cleanup_index = NextCleanupIndex(i, FALSE)]
           \/ /\ agent \in session.agents
              /\ session' = [[session EXCEPT !.log = @ \o <<"delete " \o agent,
                                                             "warning " \o agent>>]
                               EXCEPT !.cleanup_index = NextCleanupIndex(i, TRUE)]
    /\ pc' = "cleanup"
    /\ SessionUnchanged

\* the end of finally: "Review complete!"
Finish ==
    /\ pc = "cleanup"
    /\ session.cleanup_index >= Len(agents_to_clean)
    /\ pc' = "exit"
    /\ UNCHANGED session
    /\ SessionUnchanged

NextRun ==
    \/ ReadInputs \/ ReadArticle \/ Choice
    \/ CreateInputAgent \/ CreateReviewerAgent \/ CreateChecklisterAgent
    \/ CreateWriterAgent \/ CreateOrchestrator
    \/ CreateThread \/ PostMessage \/ RunOrchestrator \/ ListMessages
    \/ SessionParse \/ SessionValidate \/ WriteJson \/ WriteMarkdown
    \/ Cleanup \/ Finish

SpecRun == InitRun /\ [][NextRun]_vars

-----------------------------------------------------------------------------
(* The sections of a raw text as the specification defines them: from the first *)
(* case-insensitive occurrence of a header to the nearest other header after it *)

AllHeaders == {H_REVIEW, H_SCORES, H_CORRECTED, H_IMPROVEMENT}

HeaderStart(txt, h) == Find(UpperStr(txt), h)

HeaderPresent(txt, h) == HeaderStart(txt, h) /= -1

SectionEnd(txt, h) ==
    LET later == {HeaderStart(txt, g) : g \in AllHeaders \ {h}}
                 \cap (HeaderStart(txt, h) + 1)..Len(txt)
    IN  IF later = {} THEN Len(txt) ELSE MinOf(later)

SectionOf(txt, h) == Slice(txt, HeaderStart(txt, h), SectionEnd(txt, h))

NoHeaders(txt) == \A h \in AllHeaders : ~HeaderPresent(txt, h)

\* the complete default mapping, for a session with or without article content
DefaultMapping(with_article) ==
    [ k \in {"length", "keywords", "gist", "consistency", "inclusion",
             "checklist_completeness", "conciseness"} |->
        CASE k \in {"length", "inclusion", "checklist_completeness"} -> 85
          [] k \in {"keywords", "gist", "conciseness"} -> 90
          [] k = "consistency" -> IF with_article THEN 98 ELSE 75 ]

\* the text between the first "{" and the last "}" of scores_text is not valid JSON
InvalidScoresJson(txt) ==
    LET u == UpperStr(txt)
        st == ScoresText(txt, Find(u, H_SCORES), Find(u, H_CORRECTED),
                         Find(u, H_IMPROVEMENT))
    IN  /\ st /= None
        /\ Find(st[1], <<"{">>) /= -1
        /\ RFind(st[1], <<"}">>) + 1 > Find(st[1], <<"{">>)
        /\ ~JsonValid(Slice(st[1], Find(st[1], <<"{">>), RFind(st[1], <<"}">>) + 1))

-----------------------------------------------------------------------------
(* The claims *)

\* C1 (SpecValidate): whatever the raw comments are (none, blank ones, more than
\* 10), the returned review_comments has between 2 and 10 entries.
C1_CommentCountInRange ==
    pc = "done" =>
        /\ Len(result.review_comments) >= 2
        /\ Len(result.review_comments) <= 10

\* C1 witness: more than 10 raw comments were given and 10 are returned.
C1_Witness ==
    /\ pc = "done"
    /\ Len(parsed.review_comments) > 10
    /\ Len(result.review_comments) = 10

\* C2 (SpecValidate): the returned checklist_scores has exactly the seven
\* canonical keys, whatever mapping the agent reported.
C2_ExactKeySet ==
    pc = "done" => DOMAIN result.checklist_scores = ExpectedSet

\* C3 (Spec): an off-topic keyword anywhere within the REVIEW COMMENTS section of
\* the raw text gives a final consistency score of 0.
C3_KeywordForcesZero ==
    ( /\ pc = "done"
      /\ HeaderPresent(text, H_REVIEW)
      /\ \E kw \in off_topic_keywords : KeywordIn(kw, SectionOf(text, H_REVIEW)) )
    => result.checklist_scores["consistency"] = 0

\* C4 (SpecValidate): a candidate of fewer than 30 words (an empty one included)
\* gives a corrected_abstract equal to the original abstract as it was passed in.
C4_ShortCandidateGivesOriginal ==
    (pc = "done" /\ WordCount(parsed.corrected_abstract) < 30)
    => result.corrected_abstract = original_abstract

\* C5 (Spec): a raw text with none of the four headers gives a record of fallback
\* content only: the 4 fallback comments, the default mapping, the original
\* abstract and the default summary.
C5_NoHeadersOnlyFallback ==
    (pc = "done" /\ NoHeaders(text)) =>
        /\ result.review_comments = InitialFallback
        /\ Len(result.review_comments) = 4
        /\ result.checklist_scores = DefaultMapping(Truthy(article_content))
        /\ result.corrected_abstract = original_abstract
        /\ result.improvement_summary = DefaultSummary

\* the same, for the CHECKLIST SCORES section up to the nearest header after it
InvalidSectionJson(txt) ==
    /\ HeaderPresent(txt, H_SCORES)
    /\ LET st == SectionOf(txt, H_SCORES)
       IN  /\ Find(st, <<"{">>) /= -1
           /\ RFind(st, <<"}">>) + 1 > Find(st, <<"{">>)
           /\ ~JsonValid(Slice(st, Find(st, <<"{">>), RFind(st, <<"}">>) + 1))

\* C6 as stated (Spec): invalid JSON in the scores section leaves the parsed
\* checklist_scores empty and the final scores equal to the default mapping.
C6_InvalidJsonGivesDefaults ==
    (InvalidScoresJson(text) \/ InvalidSectionJson(text)) =>
        /\ pc = "validate" => parsed.checklist_scores = EmptyDict
        /\ pc = "done" => result.checklist_scores = DefaultMapping(Truthy(article_content))

\* C6 as amended (Spec): invalid JSON in the scores section leaves the parsed
\* checklist_scores empty (a warning is printed, no error) and the final scores equal to
\* the default mapping, except that consistency is 0 when the final review
\* comments hold an off-topic keyword.
C6_InvalidJsonGivesDefaultsUnlessOffTopic ==
    (InvalidScoresJson(text) \/ InvalidSectionJson(text)) =>
        /\ pc \in {"validate", "done"} => parsed.checklist_scores = EmptyDict
        /\ (pc = "validate" /\ InvalidScoresJson(text)) => warned
        /\ pc = "done" =>
              result.checklist_scores =
                  IF \E kw \in off_topic_keywords :
                        KeywordIn(kw, LowerStr(Join(<<" ">>, result.review_comments)))
                  THEN [DefaultMapping(Truthy(article_content)) EXCEPT !["consistency"] = 0]
                  ELSE DefaultMapping(Truthy(article_content))

\* C6 witness: unbalanced braces, no off-topic comment, an article: consistency 98.
C6_Witness ==
    /\ pc = "done"
    /\ InvalidScoresJson(text)
    /\ warned
    /\ Truthy(article_content)
    /\ result.checklist_scores["consistency"] = 98

\* C7 (Spec): for each header present, the field extracted is the content of the
\* section from that header to the nearest other header after it (or the end of
\* the text), in whatever order the headers appear.
C7_SectionsByNearestHeader ==
    pc = "validate" =>
        /\ HeaderPresent(text, H_REVIEW) =>
              parsed.review_comments = ReviewLines(SplitLines(SectionOf(text, H_REVIEW)))
        /\ HeaderPresent(text, H_SCORES) =>
              parsed.checklist_scores =
                  ExtractScores(Some(SectionOf(text, H_SCORES))).scores
        /\ HeaderPresent(text, H_CORRECTED) =>
              parsed.corrected_abstract =
                  ExtractCorrected(Some(SectionOf(text, H_CORRECTED)))
        /\ HeaderPresent(text, H_IMPROVEMENT) =>
              parsed.improvement_summary =
                  Join(<<" ">>, SectionLines(SplitLines(SectionOf(text, H_IMPROVEMENT)),
                                             H_IMPROVEMENT, FALSE,
                                             {"-", BUL, "*", " ", NL}))

\* C8 as stated (SpecValidate): the returned corrected_abstract is trimmed and
\* has at least 30 words.
C8_TrimmedAndLongEnough ==
    pc = "done" =>
        /\ Strip(result.corrected_abstract) = result.corrected_abstract
        /\ WordCount(result.corrected_abstract) >= 30

\* C8 as amended (SpecValidate): the returned corrected_abstract is trimmed and
\* has at least 30 words, or it is the original abstract as it was passed in.
C8_TrimmedAndLongEnoughOrOriginal ==
    pc = "done" =>
        \/ /\ Strip(result.corrected_abstract) = result.corrected_abstract
           /\ WordCount(result.corrected_abstract) >= 30
        \/ result.corrected_abstract = original_abstract

\* C8 witness: an untrimmed candidate of 30 words is returned trimmed.
C8_Witness ==
    /\ pc = "done"
    /\ WordCount(parsed.corrected_abstract) = 30
    /\ parsed.corrected_abstract /= Strip(parsed.corrected_abstract)
    /\ result.corrected_abstract = Strip(parsed.corrected_abstract)
    /\ result.corrected_abstract /= original_abstract

LogEvents == {session.log[i] : i \in 1..Len(session.log)}

\* C9 (SpecRun): when the session has ended, whichever way, a deletion was
\* attempted for every agent that was created, whether or not other deletions
\* failed.
C9_EveryCreatedAgentDeleted ==
    pc = "exit" => \A a \in session.agents : ("delete " \o a) \in LogEvents

\* C9 witness: the run raised with all five agents created, the first two
\* deletions failed, and all five deletions were attempted.
C9_Witness ==
    /\ pc = "exit"
    /\ session.error = "run"
    /\ Cardinality(session.agents) = 5
    /\ {"warning orchestrator", "warning input_agent"} \subseteq LogEvents
    /\ \A a \in session.agents : ("delete " \o a) \in LogEvents

LogIndex(e) == CHOOSE i \in 1..Len(session.log) : session.log[i] = e

\* C10 (SpecRun): once the finally block is reached without an exception, a run
\* that reported "failed" was reported, its messages listed, parsed and
\* normalized and both artifacts written, in this order and before any deletion;
\* and with no exception, an artifact is missing only if the user chose to exit.
C10_FailedRunStillWritesArtifacts ==
    (pc \in {"cleanup", "exit"} /\ session.error = "none") =>
        /\ session.run_status = "failed" =>
              /\ session.artifacts = {"json", "md"}
              /\ \A e \in {"run failed", "listed", "parsed", "normalized", "json", "md"} :
                    e \in LogEvents
              /\ LogIndex("run failed") < LogIndex("listed")
              /\ LogIndex("listed") < LogIndex("parsed")
              /\ LogIndex("parsed") < LogIndex("normalized")
              /\ LogIndex("normalized") < LogIndex("json")
              /\ LogIndex("json") < LogIndex("md")
              /\ \A a \in session.agents :
                    ("delete " \o a) \in LogEvents =>
                        LogIndex("md") < LogIndex("delete " \o a)
        /\ session.artifacts /= {"json", "md"} =>
              (session.aborted /\ session.artifacts = {})

\* C10 witness: the run reported "failed", nothing raised, both files exist.
C10_Witness ==
    /\ pc = "exit"
    /\ session.run_status = "failed"
    /\ session.error = "none"
    /\ session.artifacts = {"json", "md"}
    /\ result.review_comments = FALLBACK_REVIEW

\* a line of the review section as the specification treats it: kept when it starts
\* with a bullet or a numeric marker and has 10 characters or more without it
SpecifiedReviewLine(line0) ==
    LET line == Strip(line0)
        body == IF line /= <<>> /\ line[1] \in {"-", BUL, "*"}
                THEN DropLeading(line, {"-", BUL, "*", " ", NL})
                ELSE IF line /= <<>> /\ line[1] = "1."
                THEN DropLeading(Tail(line), {" ", NL})
                ELSE <<>>
    IN  IF StrLen(body) >= 10 THEN <<body>> ELSE <<>>

RECURSIVE SpecifiedReviewLines(_)
SpecifiedReviewLines(lines) ==
    IF lines = <<>> THEN <<>>
    ELSE SpecifiedReviewLine(Head(lines)) \o SpecifiedReviewLines(Tail(lines))

\* C11 (Spec): when the REVIEW COMMENTS section runs up to the CHECKLIST SCORES
\* header, the parsed comments are, in order, the lines of the section that start
\* with a bullet or numeric marker, without the marker, of 10 characters or more.
C11_MarkedLinesOfTenOrMoreKept ==
    ( /\ pc = "validate"
      /\ HeaderPresent(text, H_REVIEW)
      /\ HeaderPresent(text, H_SCORES)
      /\ SectionEnd(text, H_REVIEW) = HeaderStart(text, H_SCORES) )
    => parsed.review_comments =
           SpecifiedReviewLines(SplitLines(SectionOf(text, H_REVIEW)))

\* the value the specification gives a canonical key: that of the first alias, in
\* the order of the category's alias list, that the agent mapping holds, else the
\* category's default
SpecifiedScore(agent, cat, with_article) ==
    LET rule == mapping_rules(cat)
    IN  IF \E i \in 1..Len(rule) : rule[i] \in DOMAIN agent
        THEN LET first == CHOOSE i \in 1..Len(rule) :
                              /\ rule[i] \in DOMAIN agent
                              /\ \A j \in 1..(i - 1) : rule[j] \notin DOMAIN agent
             IN  agent[rule[first]]
        ELSE DefaultMapping(with_article)[cat]

SpecifiedScores(agent, with_article) ==
    [cat \in ExpectedSet |-> SpecifiedScore(agent, cat, with_article)]

LacksCanonicalKey(agent) == \E cat \in ExpectedSet : cat \notin DOMAIN agent

FinalCommentsOffTopic ==
    \E kw \in off_topic_keywords :
        KeywordIn(kw, LowerStr(Join(<<" ">>, result.review_comments)))

\* C12 as stated (SpecValidate): when the agent mapping lacks a canonical key, the
\* final scores have exactly the seven canonical keys, each with the value of the
\* first alias present (in alias-list order) or else the category's default.
C12_KeyByKeyFirstAlias ==
    (pc = "done" /\ LacksCanonicalKey(parsed.checklist_scores)) =>
        result.checklist_scores =
            SpecifiedScores(parsed.checklist_scores, Truthy(article_content))

\* C12 as amended (SpecValidate): the same, except that consistency is 0 when the
\* final review comments hold an off-topic keyword.
C12_KeyByKeyFirstAliasUnlessOffTopic ==
    (pc = "done" /\ LacksCanonicalKey(parsed.checklist_scores)) =>
        result.checklist_scores =
            IF FinalCommentsOffTopic
            THEN [SpecifiedScores(parsed.checklist_scores, Truthy(article_content))
                      EXCEPT !["consistency"] = 0]
            ELSE SpecifiedScores(parsed.checklist_scores, Truthy(article_content))

\* C12 witness: the agent gave 4 canonical keys and two aliases of consistency, in
\* the mapping the later alias of the list comes first; the earlier alias of the
\* list wins, and agent values stand next to defaults.
C12_Witness ==
    /\ pc = "done"
    /\ {"length", "alignment", "consistency_with_article_content"} \subseteq
           DOMAIN parsed.checklist_scores
    /\ "consistency" \notin DOMAIN parsed.checklist_scores
    /\ result.checklist_scores["consistency"] =
           parsed.checklist_scores["consistency_with_article_content"]
    /\ result.checklist_scores["length"] = parsed.checklist_scores["length"]
    /\ result.checklist_scores["conciseness"] = 90
    /\ Cardinality(DOMAIN result.checklist_scores) = 7

\* C13 (SpecValidate): a call of validate_and_fill leaves the parsed record it was
\* given, the checklist_scores mapping inside it included, and the FALLBACK_REVIEW
\* list with the values they had before the call.
C13_CallLeavesArgumentsUnchanged ==
    [][pc = "validate" =>
          (parsed' = parsed /\ FALLBACK_REVIEW' = FALLBACK_REVIEW)]_vars

\* the raw comments validate_and_fill keeps: those that are not blank
KeptRawComments(raw) == SelectSeq(raw, LAMBDA c : Strip(c) /= <<>>)

\* the comment is written as *text* or **text**
WrappedInEmphasis(c) ==
    LET s == Strip(c)
    IN  Len(s) >= 3 /\ s[1] = "*" /\ s[Len(s)] = "*"

\* C14 (SpecValidate): each kept raw comment comes out without citation markers,
\* without leading bullet characters, without the emphasis markers that wrapped it
\* (neither the leading nor the trailing ones), and with at most 50 words.
C14_CommentsCleanedAndClamped ==
    (pc = "done" /\ Len(KeptRawComments(parsed.review_comments)) >= 2) =>
        \A i \in 1..Len(result.review_comments) :
            LET raw == KeptRawComments(parsed.review_comments)[i]
                c == result.review_comments[i]
            IN  /\ \A j \in 1..Len(c) : c[j] \notin {LCIT, RCIT}
                /\ c /= <<>> => c[1] \notin {"-", "*", "+", " ", NL}
                /\ WrappedInEmphasis(raw) =>
                       (c /= <<>> /\ c[1] /= "*" /\ c[Len(c)] /= "*")
                /\ WordCount(c) <= 50

\* the offsets at which the header h occurs in txt, whatever the case
Occurrences(txt, h) ==
    {i \in 0..(Len(txt) - Len(h)) : SubSeq(UpperStr(txt), i + 1, i + Len(h)) = h}

\* a repeat of the header h lies inside the section that starts at the header sec
RepeatInside(txt, h, sec) ==
    /\ HeaderPresent(txt, sec)
    /\ \E q \in Occurrences(txt, h) :
          /\ q > HeaderStart(txt, h)
          /\ q > HeaderStart(txt, sec)
          /\ q < SectionEnd(txt, sec)

\* C15 (Spec): a header that occurs again inside the CORRECTED ABSTRACT or the
\* IMPROVEMENT SUMMARY section (sections being delimited by first occurrences
\* only) is content of that section: the extracted field holds the repeated line.
C15_RepeatedHeaderKeptAsContent ==
    pc = "validate" =>
        \A h \in AllHeaders :
            /\ RepeatInside(text, h, H_CORRECTED) =>
                   Contains(UpperStr(parsed.corrected_abstract), h)
            /\ RepeatInside(text, h, H_IMPROVEMENT) =>
                   Contains(UpperStr(parsed.improvement_summary), h)

\* C16 (SpecValidate): in every returned record, final comments whose lower-cased,
\* space-joined text holds an off-topic keyword go with a consistency of 0,
\* whichever path produced the scores; the built-in fallback comments hold no
\* keyword, and a record of fallback comments keeps the consistency that the
\* pass-through, alias or default path gave it.
C16_OffTopicCommentsMeanZero ==
    pc = "done" =>
        /\ FinalCommentsOffTopic => result.checklist_scores["consistency"] = 0
        /\ \A kw \in off_topic_keywords :
               ~KeywordIn(kw, LowerStr(Join(<<" ">>, InitialFallback)))
        /\ result.review_comments = InitialFallback =>
               result.checklist_scores["consistency"] =
                   SpecifiedScore(parsed.checklist_scores, "consistency",
                                  Truthy(article_content))

\* C16 witness: ten comments are returned, the first holds a keyword written in
\* upper case, the scores came from the alias path, and consistency is 0.
C16_Witness ==
    /\ pc = "done"
    /\ Len(result.review_comments) = 10
    /\ \E i \in 1..Len(result.review_comments[1]) :
          result.review_comments[1][i] = "PHOTONICS"
    /\ FinalCommentsOffTopic
    /\ LacksCanonicalKey(parsed.checklist_scores)
    /\ "alignment" \in DOMAIN parsed.checklist_scores
    /\ result.checklist_scores["consistency"] = 0

====
